---- MODULE Spec2Model ----
(***************************************************************************)
(* Model of the geometry value types of angles_to_config/types.h           *)
(* (RectBounds, XYZ) and of the calibration widget's center-of-projection  *)
(* state (calibration/opengl_widget.cpp).                                  *)
(*                                                                         *)
(* A C++ double is modelled as a pair <<n, d>>:                            *)
(*   d > 0, n # 0, gcd(|n|, d) = 1   the finite non-zero value n/d         *)
(*   <<0, 1>> and <<0, -1>>          +0.0 and -0.0                         *)
(*   <<1, 0>> and <<-1, 0>>          +infinity and -infinity               *)
(*   <<0, 0>>                        NaN                                   *)
(* The special values follow IEEE 754; finite arithmetic is exact (the     *)
(* rounding and the overflow of a 64-bit double are not modelled).         *)
(***************************************************************************)
EXTENDS Integers, Sequences, FiniteSets, TLC

\* ---------------------------------------------------------------- bounds
MaxCoord == 2    \* point coordinates range over -MaxCoord..MaxCoord and -0.0
MaxCoef  == 1    \* plane coefficients range over -MaxCoef..MaxCoef
MaxRect  == 2    \* RectBounds fields range over -MaxRect..MaxRect and -0.0
MaxChain == 2    \* longest chain of reflectedHorizontally() calls
MaxW     == 4    \* window widths and mouse x positions range over 0..MaxW
MaxH     == 2    \* window heights and mouse y positions range over 0..MaxH
KeyMargin == 1  \* arrow keys are followed until d_cop is KeyMargin beyond MaxW, MaxH

\* ------------------------------------------------------ double arithmetic
Abs(i) == IF i < 0 THEN -i ELSE i

RECURSIVE GCD(_, _)
GCD(a, b) == IF b = 0 THEN a ELSE GCD(b, a % b)

NaN     == <<0, 0>>
PosZero == <<0, 1>>
NegZero == <<0, -1>>
Num(i)  == IF i = 0 THEN PosZero ELSE <<i, 1>>

IsNaN(a)    == a = NaN
IsInf(a)    == a[2] = 0 /\ a[1] # 0
IsZero(a)   == a[1] = 0 /\ a[2] # 0
IsFinite(a) == a[2] # 0
\* the sign bit
SignBit(a)  == IF a[1] = 0 THEN a[2] < 0 ELSE a[1] < 0

MkZero(neg) == IF neg THEN NegZero ELSE PosZero
MkInf(neg)  == IF neg THEN <<-1, 0>> ELSE <<1, 0>>
\* n/d in lowest terms, for n # 0 and d > 0
Norm(n, d)  == LET g == GCD(Abs(n), d) IN <<n \div g, d \div g>>

\* unary minus: flips the sign bit
NumNeg(a) ==
    IF IsNaN(a) THEN NaN
    ELSE IF IsZero(a) THEN <<0, -a[2]>>
    ELSE <<-a[1], a[2]>>

\* a * b
NumMul(a, b) ==
    IF IsNaN(a) \/ IsNaN(b) THEN NaN
    ELSE IF (IsInf(a) /\ IsZero(b)) \/ (IsZero(a) /\ IsInf(b)) THEN NaN
    ELSE IF IsInf(a) \/ IsInf(b) THEN MkInf(SignBit(a) # SignBit(b))
    ELSE IF IsZero(a) \/ IsZero(b) THEN MkZero(SignBit(a) # SignBit(b))
    ELSE Norm(a[1] * b[1], a[2] * b[2])

\* a + b (round to nearest: an exact zero sum of opposite values is +0.0)
NumAdd(a, b) ==
    IF IsNaN(a) \/ IsNaN(b) THEN NaN
    ELSE IF IsInf(a) /\ IsInf(b) THEN (IF a = b THEN a ELSE NaN)
    ELSE IF IsInf(a) THEN a
    ELSE IF IsInf(b) THEN b
    ELSE IF IsZero(a) /\ IsZero(b) THEN MkZero(SignBit(a) /\ SignBit(b))
    ELSE IF IsZero(a) THEN b
    ELSE IF IsZero(b) THEN a
    ELSE LET n == a[1] * b[2] + b[1] * a[2]
         IN  IF n = 0 THEN PosZero ELSE Norm(n, a[2] * b[2])

\* a - b
NumSub(a, b) == NumAdd(a, NumNeg(b))

\* a / b (a non-zero value over zero is an infinity, 0/0 is NaN)
NumDiv(a, b) ==
    IF IsNaN(a) \/ IsNaN(b) THEN NaN
    ELSE IF (IsInf(a) /\ IsInf(b)) \/ (IsZero(a) /\ IsZero(b)) THEN NaN
    ELSE IF IsInf(a) \/ IsZero(b) THEN MkInf(SignBit(a) # SignBit(b))
    ELSE IF IsInf(b) \/ IsZero(a) THEN MkZero(SignBit(a) # SignBit(b))
    ELSE LET n == a[1] * b[2]
             d == a[2] * b[1]
         IN  IF d < 0 THEN Norm(-n, -d) ELSE Norm(n, d)

\* a == b (false on NaN, +0.0 == -0.0)
NumEq(a, b) == ~IsNaN(a) /\ ~IsNaN(b) /\ (a = b \/ (IsZero(a) /\ IsZero(b)))

\* a < b (false on NaN)
NumLt(a, b) ==
    /\ ~IsNaN(a)
    /\ ~IsNaN(b)
    /\ IF IsInf(a) THEN a[1] = -1 /\ b # a
       ELSE IF IsInf(b) THEN b[1] = 1
       ELSE a[1] * Abs(b[2]) < b[1] * Abs(a[2])

\* ---------------------------------------------------------------- state
VARIABLES
    p,        \* the XYZ object the methods are called on
    plane,    \* arguments <<A, B, C, D>> of the last projectOntoPlane call
    ret,      \* value returned by the last projectOntoPlane call
    rot,      \* value returned by the last rotationAboutY call
    op,       \* last XYZ operation
    outcome,  \* how the last XYZ operation ended
    b,        \* a RectBounds object
    chain,    \* results of b.reflectedHorizontally().reflectedHorizontally()...
    d_cop,    \* OpenGL_Widget::d_cop
    d_width,  \* OpenGL_Widget::d_width
    d_height, \* OpenGL_Widget::d_height
    ev,       \* last event handled by the widget, with its arguments
    pre,      \* d_cop, d_width, d_height before the last event
    first     \* kind of the first event handled by the widget

xyzVars    == <<p, plane, ret, rot, op, outcome>>
rectVars   == <<b, chain>>
widgetVars == <<d_cop, d_width, d_height, ev, pre, first>>
vars       == <<p, plane, ret, rot, op, outcome, b, chain,
                d_cop, d_width, d_height, ev, pre, first>>


\* ------------------------------------------------------------------ XYZ
\* values a coordinate of a constructed point takes
Coords == {Num(i) : i \in -MaxCoord..MaxCoord} \cup {NegZero}
\* values a plane coefficient takes
Coefs  == {Num(i) : i \in -MaxCoef..MaxCoef}

\* XYZ(px, py, pz)
XYZ(px, py, pz) == [x |-> px, y |-> py, z |-> pz]
\* XYZ()
XYZ0 == XYZ(PosZero, PosZero, PosZero)

\* std::atan2(y, x) for finite y and x, to the resolution of a sixteenth of a
\* turn: the result k stands for the angle k*pi/8 when k is even, and for an
\* angle strictly between (k-1)*pi/8 and (k+1)*pi/8 when k is odd.  A result
\* of -0.0 is the k = 0 of +0.0.
Atan2(y, x) ==
    IF IsZero(y) THEN
        IF SignBit(x) THEN (IF SignBit(y) THEN -8 ELSE 8) ELSE 0
    ELSE LET sy == IF SignBit(y) THEN -1 ELSE 1
             ay == <<Abs(y[1]), y[2]>>
             ax == <<Abs(x[1]), Abs(x[2])>>
             k  == IF IsZero(x) THEN 4
                   ELSE IF ~SignBit(x)
                        THEN (IF NumLt(ay, ax) THEN 1
                              ELSE IF NumEq(ay, ax) THEN 2 ELSE 3)
                        ELSE (IF NumLt(ay, ax) THEN 7
                              ELSE IF NumEq(ay, ax) THEN 6 ELSE 5)
         IN  sy * k

rotationAboutY_swapped(q) == Atan2(q.x, NumNeg(q.z))
\* double rotationAboutY() const
rotationAboutY(q) == Atan2(NumNeg(q.x), NumNeg(q.z))

\* A * x + B * y + C * z, as line 132 evaluates it
Denominator(q, A, B, C) ==
    NumAdd(NumAdd(NumMul(A, q.x), NumMul(B, q.y)), NumMul(C, q.z))

projectOntoPlane_slip(q, A, B, C, D) ==
    LET s == NumDiv(NumNeg(D), Denominator(q, A, B, C))
    IN  [x |-> NumMul(s, q.x), y |-> NumMul(s, q.y), z |-> NumMul(s, q.y)]
projectOntoPlane_noNeg(q, A, B, C, D) ==
    LET s == NumDiv(D, Denominator(q, A, B, C))
    IN  [x |-> NumMul(s, q.x), y |-> NumMul(s, q.y), z |-> NumMul(s, q.z)]
\* XYZ projectOntoPlane(double A, double B, double C, double D) const
projectOntoPlane(q, A, B, C, D) ==
    LET s == NumDiv(NumNeg(D), Denominator(q, A, B, C))
    IN  [x |-> NumMul(s, q.x), y |-> NumMul(s, q.y), z |-> NumMul(s, q.z)]

NoPlane == <<PosZero, PosZero, PosZero, PosZero>>

\* the points the calls are made on: XYZ p(px, py, pz), and among them the
\* XYZ p of the default constructor
Points == {XYZ(px, py, pz) : px \in Coords, py \in Coords, pz \in Coords}

InitXYZ ==
    /\ p \in Points
    /\ plane = NoPlane
    /\ ret = XYZ0
    /\ rot = 0
    /\ op = "XYZ"
    /\ outcome = "returned"

\* ret = p.projectOntoPlane(A, B, C, D): the function has one exit, the
\* return statement of line 137, and leaves the object alone (const)
CallProjectOntoPlane ==
    /\ op = "XYZ"
    /\ \E A \in Coefs, B \in Coefs, C \in Coefs, D \in Coefs :
        /\ plane' = <<A, B, C, D>>
        /\ ret' = projectOntoPlane(p, A, B, C, D)
    /\ op' = "projectOntoPlane"
    /\ outcome' = "returned"
    /\ UNCHANGED <<p, rot>>
    /\ UNCHANGED <<b, chain, d_cop, d_width, d_height, ev, pre, first>>

\* rot = p.rotationAboutY()
CallRotationAboutY ==
    /\ op = "XYZ"
    /\ rot' = rotationAboutY(p)
    /\ op' = "rotationAboutY"
    /\ outcome' = "returned"
    /\ UNCHANGED <<p, plane, ret>>
    /\ UNCHANGED <<b, chain, d_cop, d_width, d_height, ev, pre, first>>

\* the caller is done with the returned value; the object is as it was
DropResult ==
    /\ op # "XYZ"
    /\ op' = "XYZ"
    /\ plane' = NoPlane
    /\ ret' = XYZ0
    /\ rot' = 0
    /\ UNCHANGED <<p, outcome>>
    /\ UNCHANGED <<b, chain, d_cop, d_width, d_height, ev, pre, first>>

NextXYZ ==
    \/ CallProjectOntoPlane
    \/ CallRotationAboutY
    \/ DropResult

\* ----------------------------------------------------------- RectBounds
\* values a field of a RectBounds<double> takes
RectVals == {Num(i) : i \in -MaxRect..MaxRect} \cup {NegZero}

RectBounds(l, r, t, bt) == [left |-> l, right |-> r, top |-> t, bottom |-> bt]

reflectedHorizontally_noSwap(rb) ==
    RectBounds(NumNeg(rb.left), NumNeg(rb.right), rb.top, rb.bottom)
reflectedHorizontally_halfNeg(rb) ==
    RectBounds(NumNeg(rb.right), rb.left, rb.top, rb.bottom)
reflectedHorizontally_noNeg(rb) ==
    RectBounds(rb.right, rb.left, rb.top, rb.bottom)
\* RectBounds<T> reflectedHorizontally() const
reflectedHorizontally(rb) ==
    RectBounds(NumNeg(rb.right), NumNeg(rb.left), rb.top, rb.bottom)

InitRect ==
    /\ b \in {RectBounds(l, r, t, bt) :
                l \in RectVals, r \in RectVals, t \in RectVals, bt \in RectVals}
    /\ chain = <<>>

\* the object the next call of the chain is made on
Receiver == IF chain = <<>> THEN b ELSE chain[Len(chain)]

\* one more .reflectedHorizontally() on the chain: the method is const and
\* returns a new value
CallReflectedHorizontally ==
    /\ Len(chain) < MaxChain
    /\ chain' = Append(chain, reflectedHorizontally(Receiver))
    /\ UNCHANGED b
    /\ UNCHANGED <<p, plane, ret, rot, op, outcome>>
    /\ UNCHANGED <<d_cop, d_width, d_height, ev, pre, first>>

\* the chain's temporaries go away at the end of the full expression
EndExpression ==
    /\ chain # <<>>
    /\ chain' = <<>>
    /\ UNCHANGED b
    /\ UNCHANGED <<p, plane, ret, rot, op, outcome>>
    /\ UNCHANGED <<d_cop, d_width, d_height, ev, pre, first>>

NextRect ==
    \/ CallReflectedHorizontally
    \/ EndExpression

\* -------------------------------------------------------- OpenGL_Widget
\* window widths and heights, and the coordinates of a mouse position
Widths  == 0..MaxW
Heights == 0..MaxH
\* Qt::Key_Left, Key_Right, Key_Down, Key_Up, and any other key
Keys == {"Key_Left", "Key_Right", "Key_Down", "Key_Up", "Key_Other"}

QPoint(px, py) == [x |-> px, y |-> py]

\* the quotient rounded toward zero: the int division d_width/2 and the
\* conversion of the double d_width / 4.0 to the int that setX() takes
TruncDiv(i, j) ==
    IF (i < 0) = (j < 0) THEN Abs(i) \div Abs(j) ELSE -(Abs(i) \div Abs(j))

NoEvent == [kind |-> "none", a |-> <<0, 0>>, k |-> "none"]
Snapshot == [cop |-> d_cop, width |-> d_width, height |-> d_height]

\* the constructor sets d_cop to (0,0) and leaves d_width and d_height
\* without a value: what they read as until the first resizeGL is any int
InitWidget ==
    /\ d_cop = QPoint(0, 0)
    /\ d_width \in Widths
    /\ d_height \in Heights
    /\ ev = NoEvent
    /\ pre = [cop |-> QPoint(0, 0), width |-> d_width, height |-> d_height]
    /\ first = "none"

\* the kind of the first event of the run
FirstIs(kind) == first' = IF first = "none" THEN kind ELSE first

resizeGL_keepCop(width, height) ==
    /\ d_width' = width
    /\ d_height' = height
    /\ d_cop' = d_cop
\* void OpenGL_Widget::resizeGL(int width, int height)
resizeGL(width, height) ==
    /\ d_width' = width
    /\ d_height' = height
    /\ d_cop' = QPoint(TruncDiv(width, 4), TruncDiv(height, 2))

\* void OpenGL_Widget::keyPressEvent(QKeyEvent *event)
keyPressEvent(key) ==
    /\ d_cop' = CASE key = "Key_Left"  -> [d_cop EXCEPT !.x = @ - 1]
                  [] key = "Key_Right" -> [d_cop EXCEPT !.x = @ + 1]
                  [] key = "Key_Down"  -> [d_cop EXCEPT !.y = @ - 1]
                  [] key = "Key_Up"    -> [d_cop EXCEPT !.y = @ + 1]
                  [] OTHER             -> d_cop
    /\ UNCHANGED <<d_width, d_height>>

mousePressEvent_noFlip(px, py) ==
    /\ d_cop' = IF px < TruncDiv(d_width, 2) THEN QPoint(px, py) ELSE d_cop
    /\ UNCHANGED <<d_width, d_height>>
\* void OpenGL_Widget::mousePressEvent(QMouseEvent *event)
mousePressEvent(px, py) ==
    /\ d_cop' = IF px < TruncDiv(d_width, 2)
                THEN QPoint(px, d_height - py)
                ELSE d_cop
    /\ UNCHANGED <<d_width, d_height>>

\* Qt delivers a resize
Resize ==
    \E width \in Widths, height \in Heights :
        /\ resizeGL(width, height)
        /\ ev' = [kind |-> "resize", a |-> <<width, height>>, k |-> "none"]
        /\ pre' = Snapshot
        /\ FirstIs(IF width > 0 /\ height > 0 THEN "resize_pos" ELSE "other")
        /\ UNCHANGED <<p, plane, ret, rot, op, outcome, b, chain>>

\* Qt delivers a key press; the arrow keys are followed until d_cop is
\* KeyMargin away from every position a resize or a mouse press can set
KeyPress ==
    \E key \in Keys :
        /\ keyPressEvent(key)
        /\ Abs(d_cop'.x) <= MaxW + KeyMargin
        /\ Abs(d_cop'.y) <= MaxH + KeyMargin
        /\ ev' = [kind |-> "key", a |-> <<0, 0>>, k |-> key]
        /\ pre' = Snapshot
        /\ FirstIs("other")
        /\ UNCHANGED <<p, plane, ret, rot, op, outcome, b, chain>>

\* Qt delivers a mouse press at event->pos() = (px, py)
MousePress ==
    \E px \in Widths, py \in Heights :
        /\ mousePressEvent(px, py)
        /\ ev' = [kind |-> "mouse", a |-> <<px, py>>, k |-> "none"]
        /\ pre' = Snapshot
        /\ FirstIs("other")
        /\ UNCHANGED <<p, plane, ret, rot, op, outcome, b, chain>>

NextWidget ==
    \/ Resize
    \/ KeyPress
    \/ MousePress

\* ------------------------------------------------------- specifications
\* each specification runs one of the three components and holds the state
\* of the other two at its initial value
XYZIdle ==
    /\ p = XYZ0
    /\ plane = NoPlane
    /\ ret = XYZ0
    /\ rot = 0
    /\ op = "XYZ"
    /\ outcome = "returned"
RectIdle == b = RectBounds(PosZero, PosZero, PosZero, PosZero) /\ chain = <<>>
WidgetIdle ==
    /\ d_cop = QPoint(0, 0)
    /\ d_width = 0
    /\ d_height = 0
    /\ ev = NoEvent
    /\ pre = [cop |-> QPoint(0, 0), width |-> 0, height |-> 0]
    /\ first = "none"

InitSpecXYZ    == InitXYZ /\ RectIdle /\ WidgetIdle
InitSpecRect   == InitRect /\ XYZIdle /\ WidgetIdle
InitSpecWidget == InitWidget /\ XYZIdle /\ RectIdle

SpecXYZ    == InitSpecXYZ /\ [][NextXYZ]_vars
SpecRect   == InitSpecRect /\ [][NextRect]_vars
SpecWidget == InitSpecWidget /\ [][NextWidget]_vars

\* ------------------------------------------------- properties: XYZ
Zero == PosZero
\* the last call was p.projectOntoPlane(A, B, C, D)
Projected == op = "projectOntoPlane"
\* A*x + B*y + C*z of that call
Den == Denominator(p, plane[1], plane[2], plane[3])
\* A*q.x + B*q.y + C*q.z + D for the plane of that call
PlaneValue(q) ==
    NumAdd(NumAdd(NumAdd(NumMul(plane[1], q.x), NumMul(plane[2], q.y)),
                  NumMul(plane[3], q.z)), plane[4])
Dot(u, v) ==
    NumAdd(NumAdd(NumMul(u.x, v.x), NumMul(u.y, v.y)), NumMul(u.z, v.z))
\* u and v lie on one line through the origin: u x v = 0
Collinear(u, v) ==
    /\ NumEq(NumSub(NumMul(u.y, v.z), NumMul(u.z, v.y)), Zero)
    /\ NumEq(NumSub(NumMul(u.z, v.x), NumMul(u.x, v.z)), Zero)
    /\ NumEq(NumSub(NumMul(u.x, v.y), NumMul(u.y, v.x)), Zero)
IsFiniteXYZ(q) == IsFinite(q.x) /\ IsFinite(q.y) /\ IsFinite(q.z)

\* C1: when A*x + B*y + C*z # 0, the point Q that projectOntoPlane returns
\* is on the plane, A*Q.x + B*Q.y + C*Q.z + D = 0, and on the line through
\* the origin and P.
C1_OnPlaneAndCollinear ==
    (Projected /\ ~IsZero(Den)) =>
        /\ IsFiniteXYZ(ret)
        /\ NumEq(PlaneValue(ret), Zero)
        /\ Collinear(ret, p)
\* a projection with a non-zero D whose result has a fractional coordinate
C1_Witness ==
    /\ Projected
    /\ ~IsZero(Den)
    /\ ~IsZero(plane[4])
    /\ NumEq(PlaneValue(ret), Zero)
    /\ ret.x[2] > 1

\* C2: when A*x + B*y + C*z = 0 (the ray is parallel to the plane, or P is
\* the origin) the call ends in an error and returns no XYZ.
C2_ParallelIsAnError ==
    (Projected /\ IsZero(Den)) => outcome = "error"

\* C6 as stated: when A*x + B*y + C*z # 0 the result is Q = s*P with s >= 0,
\* so Q is never on the half-line opposite to P.
C6_SameSideAsP ==
    (Projected /\ ~IsZero(Den)) =>
        /\ Collinear(ret, p)
        /\ ~NumLt(Dot(ret, p), Zero)
\* C6 amended: Q is where the line through the origin and P meets the
\* plane, Q = s*P with s = -D/(A*x + B*y + C*z); s is negative, and Q on
\* the half-line opposite to P, exactly when D is non-zero and has the sign
\* of A*x + B*y + C*z.
C6_LineNotRay ==
    (Projected /\ ~IsZero(Den)) =>
        /\ Collinear(ret, p)
        /\ NumLt(Dot(ret, p), Zero) <=>
               (~IsZero(plane[4]) /\ SignBit(plane[4]) = SignBit(Den))
\* a projection that lands on the half-line opposite to P
C6_Witness ==
    /\ Projected
    /\ ~IsZero(Den)
    /\ NumLt(Dot(ret, p), Zero)

\* the last call was p.rotationAboutY()
Rotated == op = "rotationAboutY"
\* p is the direction (i, j, k)
Points3(i, j, k) ==
    NumEq(p.x, Num(i)) /\ NumEq(p.y, Num(j)) /\ NumEq(p.z, Num(k))

\* C5: rotationAboutY is 0 for (0,0,-1), +pi/2 for (-1,0,0) and -pi/2 for
\* (1,0,0); it is 0 along -Z, positive when x < 0, negative when x > 0, and
\* the same whatever y is.  (rot counts in units of pi/8.)
C5_RotationAboutY ==
    Rotated =>
        /\ Points3(0, 0, -1) => rot = 0
        /\ Points3(-1, 0, 0) => rot = 4
        /\ Points3(1, 0, 0) => rot = -4
        /\ (IsZero(p.x) /\ NumLt(p.z, Zero)) => rot = 0
        /\ NumLt(p.x, Zero) => rot > 0
        /\ NumLt(Zero, p.x) => rot < 0
        /\ \A y2 \in Coords : rotationAboutY(XYZ(p.x, y2, p.z)) = rot
\* the rotation of a direction toward -X with a non-zero y
C5_Witness ==
    /\ Rotated
    /\ NumLt(p.x, Zero)
    /\ ~IsZero(p.y)
    /\ NumLt(p.z, Zero)
    /\ rot \in 1..3

\* ------------------------------------------ properties: RectBounds
\* C3: b.reflectedHorizontally().reflectedHorizontally() equals b in all four
\* fields.
C3_Involution ==
    Len(chain) >= 2 =>
        /\ chain[2].left = b.left
        /\ chain[2].right = b.right
        /\ chain[2].top = b.top
        /\ chain[2].bottom = b.bottom
\* two reflections of a bound that one reflection changes
C3_Witness ==
    /\ Len(chain) = 2
    /\ chain[1] # b
    /\ chain[2] = b

\* C4: r = b.reflectedHorizontally() has r.left = -b.right, r.right = -b.left,
\* r.top = b.top and r.bottom = b.bottom, and the call leaves b as it was.
C4_SingleReflection ==
    /\ [](Len(chain) >= 1 =>
            /\ chain[1].left = NumNeg(b.right)
            /\ chain[1].right = NumNeg(b.left)
            /\ chain[1].top = b.top
            /\ chain[1].bottom = b.bottom)
    /\ [][Len(chain') > Len(chain) => b' = b]_vars
\* one reflection of a bound with distinct non-zero sides, top and bottom
C4_Witness ==
    /\ Len(chain) = 1
    /\ ~IsZero(b.left)
    /\ ~IsZero(b.right)
    /\ ~NumEq(b.left, b.right)
    /\ ~NumEq(b.top, b.bottom)
    /\ chain[1].left = NumNeg(b.right)
    /\ chain[1].right = NumNeg(b.left)

\* r and b have equal fields (as doubles compare: +0.0 equals -0.0)
SameBounds(r, c) ==
    /\ NumEq(r.left, c.left)
    /\ NumEq(r.right, c.right)
    /\ NumEq(r.top, c.top)
    /\ NumEq(r.bottom, c.bottom)

\* C10: r = b.reflectedHorizontally() has r.right - r.left = b.right - b.left,
\* so b.left < b.right implies r.left < r.right, and a bound with
\* b.left = -b.right is returned unchanged.
C10_ExtentPreserved ==
    Len(chain) >= 1 =>
        LET r == chain[1] IN
        /\ NumEq(NumSub(r.right, r.left), NumSub(b.right, b.left))
        /\ NumLt(b.left, b.right) => NumLt(r.left, r.right)
        /\ NumEq(b.left, NumNeg(b.right)) => SameBounds(r, b)
\* the reflection of a bound of positive width that is not symmetric
C10_Witness ==
    /\ Len(chain) >= 1
    /\ NumLt(b.left, b.right)
    /\ ~NumEq(b.left, NumNeg(b.right))
    /\ NumLt(chain[1].left, chain[1].right)

\* ---------------------------------------- properties: OpenGL_Widget
\* C7: once the first event was a resizeGL of positive width and height,
\* 0 <= d_cop.x < d_width/2 and 0 <= d_cop.y <= d_height.
C7_CopInLeftHalf ==
    first = "resize_pos" =>
        /\ 0 <= d_cop.x
        /\ d_cop.x < d_width \div 2
        /\ 0 <= d_cop.y
        /\ d_cop.y <= d_height

\* C8: mousePressEvent at (px, py) sets d_cop to (px, d_height - py) when
\* px < d_width/2, leaves d_cop alone otherwise, and never changes d_width
\* or d_height.
C8_MousePress ==
    ev.kind = "mouse" =>
        LET px == ev.a[1]
            py == ev.a[2]
        IN  /\ px < pre.width \div 2 => d_cop = QPoint(px, pre.height - py)
            /\ px >= pre.width \div 2 => d_cop = pre.cop
            /\ d_width = pre.width
            /\ d_height = pre.height
\* a press in the left half, off the old center, with py > 0
C8_Witness ==
    /\ ev.kind = "mouse"
    /\ ev.a[1] < pre.width \div 2
    /\ ev.a[2] > 0
    /\ d_cop # pre.cop
    /\ d_cop = QPoint(ev.a[1], d_height - ev.a[2])

\* C9: resizeGL(width, height) ends with d_width = width, d_height = height
\* and d_cop = (width/4, height/2) truncated, whatever d_cop was.
C9_ResizeResets ==
    ev.kind = "resize" =>
        /\ d_width = ev.a[1]
        /\ d_height = ev.a[2]
        /\ d_cop = QPoint(ev.a[1] \div 4, ev.a[2] \div 2)
\* a resize to a width of at least 4 that replaces a center set before it
C9_Witness ==
    /\ ev.kind = "resize"
    /\ ev.a[1] >= 4
    /\ ev.a[2] >= 2
    /\ pre.cop # d_cop
    /\ pre.cop # QPoint(pre.width \div 4, pre.height \div 2)
    /\ d_cop = QPoint(1, 1)

====
